---- MODULE Spec2Model ----
(***************************************************************************)
(* fault-mesh-tools: the four command-line tools (VTK -> local STL +       *)
(* metadata, local STL -> global STL, local STL -> Cubit journal,          *)
(* TSurf -> VTK) and the geometry core they call.                          *)
(*                                                                         *)
(* Numbers are exact rationals: a vector is <<x, y, z, d>> standing for    *)
(* (x/d, y/d, z/d) with d > 0 and gcd(x, y, z, d) = 1, a matrix is         *)
(* [a |-> 3x3 integer rows, d |-> denominator] reduced the same way, so    *)
(* that equality of values is equality of representations.  "Equal within  *)
(* floating tolerance" is modelled as equality of the exact values.        *)
(***************************************************************************)
EXTENDS Integers, Sequences, FiniteSets, TLC

(***************************************************************************)
(* Bounds of the model.                                                    *)
(***************************************************************************)
\* unit normals / axes are the rational unit vectors with denominator <= MaxDen
MaxDen == 5

(***************************************************************************)
(* Exact arithmetic.                                                       *)
(***************************************************************************)
Abs(x) == IF x < 0 THEN -x ELSE x

RECURSIVE GCDNat(_, _)
GCDNat(a, b) == IF b = 0 THEN a ELSE GCDNat(b, a % b)

GCD(a, b) == GCDNat(Abs(a), Abs(b))

GCD4(a, b, c, d) == GCD(GCD(a, b), GCD(c, d))

\* floor of the square root of n >= 0, by bisection on lo..hi
RECURSIVE SqrtIn(_, _, _)
SqrtIn(n, lo, hi) ==
    IF lo >= hi THEN lo
    ELSE LET mid == (lo + hi + 1) \div 2
         IN  IF mid * mid <= n THEN SqrtIn(n, mid, hi) ELSE SqrtIn(n, lo, mid - 1)

ISqrt(n) == SqrtIn(n, 0, IF n < 46340 THEN n ELSE 46340)

IsSquare(n) == n >= 0 /\ ISqrt(n) * ISqrt(n) = n

\* the vector (x/d, y/d, z/d), d # 0, in reduced form
Vec(x, y, z, d) ==
    LET g == GCD4(x, y, z, d)
        s == IF d < 0 THEN -1 ELSE 1
    IN  <<(s * x) \div g, (s * y) \div g, (s * z) \div g, (s * d) \div g>>

VecAdd(u, v) ==
    Vec(u[1] * v[4] + v[1] * u[4], u[2] * v[4] + v[2] * u[4],
        u[3] * v[4] + v[3] * u[4], u[4] * v[4])

VecSub(u, v) ==
    Vec(u[1] * v[4] - v[1] * u[4], u[2] * v[4] - v[2] * u[4],
        u[3] * v[4] - v[3] * u[4], u[4] * v[4])

\* squared length of v as the pair <<numerator, denominator>>
NormSq(v) == <<v[1] * v[1] + v[2] * v[2] + v[3] * v[3], v[4] * v[4]>>

IsUnit(v) == NormSq(v)[1] = NormSq(v)[2]

RECURSIVE GCDSeq(_)
GCDSeq(s) == IF s = <<>> THEN 0 ELSE GCD(Head(s), GCDSeq(Tail(s)))

\* the matrix rows/d in reduced form
Mat(rows, d) ==
    LET g == GCD(GCDSeq(rows[1] \o rows[2] \o rows[3]), d)
        s == IF d < 0 THEN -1 ELSE 1
    IN  [a |-> [i \in 1..3 |-> [j \in 1..3 |-> (s * rows[i][j]) \div g]],
         d |-> (s * d) \div g]

Identity == Mat(<<<<1, 0, 0>>, <<0, 1, 0>>, <<0, 0, 1>>>>, 1)

Transpose(R) == [a |-> [i \in 1..3 |-> [j \in 1..3 |-> R.a[j][i]]], d |-> R.d]

MatVec(R, v) ==
    Vec(R.a[1][1] * v[1] + R.a[1][2] * v[2] + R.a[1][3] * v[3],
        R.a[2][1] * v[1] + R.a[2][2] * v[2] + R.a[2][3] * v[3],
        R.a[3][1] * v[1] + R.a[3][2] * v[2] + R.a[3][3] * v[3],
        R.d * v[4])

MatMul(A, B) ==
    Mat([i \in 1..3 |-> [j \in 1..3 |->
            A.a[i][1] * B.a[1][j] + A.a[i][2] * B.a[2][j] + A.a[i][3] * B.a[3][j]]],
        A.d * B.d)

Det(R) ==
    R.a[1][1] * (R.a[2][2] * R.a[3][3] - R.a[2][3] * R.a[3][2])
  - R.a[1][2] * (R.a[2][1] * R.a[3][3] - R.a[2][3] * R.a[3][1])
  + R.a[1][3] * (R.a[2][1] * R.a[3][2] - R.a[2][2] * R.a[3][1])

\* R * R^T = I and det R = +1
IsRotation(R) == MatMul(R, Transpose(R)) = Identity /\ Det(R) = R.d * R.d * R.d

\* the rational unit vectors with denominator at most MaxDen
UnitVectors ==
    {Vec(x, y, z, d) : <<x, y, z, d>> \in
        {q \in (-MaxDen..MaxDen) \X (-MaxDen..MaxDen) \X (-MaxDen..MaxDen) \X (1..MaxDen) :
            q[1] * q[1] + q[2] * q[2] + q[3] * q[3] = q[4] * q[4]}}

(***************************************************************************)
(* Rational scalars <<n, d>>, d > 0.                                       *)
(***************************************************************************)
Rat(n, d) ==
    LET g == GCD(n, d)
        s == IF d < 0 THEN -1 ELSE 1
    IN  <<(s * n) \div g, (s * d) \div g>>

RatAdd(p, q) == Rat(p[1] * q[2] + q[1] * p[2], p[2] * q[2])
RatMul(p, q) == Rat(p[1] * q[1], p[2] * q[2])
RatLess(p, q) == p[1] * q[2] < q[1] * p[2]
RatLeq(p, q) == p[1] * q[2] <= q[1] * p[2]
RatAbs(p) == <<Abs(p[1]), p[2]>>

Dot(u, v) == Rat(u[1] * v[1] + u[2] * v[2] + u[3] * v[3], u[4] * v[4])

Cross(u, v) ==
    Vec(u[2] * v[3] - u[3] * v[2], u[3] * v[1] - u[1] * v[3],
        u[1] * v[2] - u[2] * v[1], u[4] * v[4])

ZeroVec == Vec(0, 0, 0, 1)

(***************************************************************************)
(* RotationBuilder (spec 4.2): get_fault_rotation_matrix.                  *)
(***************************************************************************)
\* the canonical reference axis, global Z
reference_axis == Vec(0, 0, 1, 1)

\* the cutoff both conversion tools pass, 0.98
cutoff_vecmag == Rat(98, 100)

\* an angle in [0, pi] as [c, s, d]: cosine c/d, sine s/d >= 0
Angle(c, s, d) ==
    LET g == GCD(GCD(c, s), d) IN [c |-> c \div g, s |-> s \div g, d |-> d \div g]

\* Rodrigues' formula for a unit axis k and an angle:
\* R = cos I + sin [k]x + (1 - cos) k k^T
Rodrigues(k, ang) ==
    LET kd == k[4]
        c  == ang.c * kd * kd
        s  == ang.s * kd
        t  == ang.d - ang.c
    IN  Mat(<<<<c + t * k[1] * k[1], t * k[1] * k[2] - s * k[3], t * k[1] * k[3] + s * k[2]>>,
              <<t * k[2] * k[1] + s * k[3], c + t * k[2] * k[2], t * k[2] * k[3] - s * k[1]>>,
              <<t * k[3] * k[1] - s * k[2], t * k[3] * k[2] + s * k[1], c + t * k[3] * k[3]>>>>,
            ang.d * kd * kd)

\* Rodrigues' formula for the axis v/|v| and the angle with cosine c and sine |v|
\* (v = normal x reference_axis, c = normal . reference_axis, |v|^2 + c^2 = 1):
\* sin [k]x = [v]x and (1 - cos) k k^T = v v^T / (1 + c), so no square root is taken
RotationAboutCross(v, c) ==
    LET vd == v[4]
        \* common denominator vd^2 * c.d * (c.d + c.n)
        e  == c[2] + c[1]
        D  == vd * vd * c[2] * e
        ci == c[1] * vd * vd * e
        sk == vd * c[2] * e
        q  == c[2] * c[2]
    IN  Mat(<<<<ci + q * v[1] * v[1], q * v[1] * v[2] - sk * v[3], q * v[1] * v[3] + sk * v[2]>>,
              <<q * v[2] * v[1] + sk * v[3], ci + q * v[2] * v[2], q * v[2] * v[3] - sk * v[1]>>,
              <<q * v[3] * v[1] - sk * v[2], q * v[3] * v[2] + sk * v[1], ci + q * v[3] * v[3]>>>>,
            D)

\* the 180-degree rotation about X, an axis orthogonal to the reference axis
HalfTurnAboutX == Mat(<<<<1, 0, 0>>, <<0, -1, 0>>, <<0, 0, -1>>>>, 1)

\* |normal x reference_axis| < cutoff, compared on the squares
BelowCutoff(plane_normal, cutoff) ==
    LET v == Cross(plane_normal, reference_axis)
    IN  RatLess(Rat(NormSq(v)[1], NormSq(v)[2]), RatMul(cutoff, cutoff))

get_fault_rotation_matrix(plane_normal, cutoff) ==
    LET v == Cross(plane_normal, reference_axis)
        c == Dot(plane_normal, reference_axis)
    IN  IF BelowCutoff(plane_normal, cutoff)
        THEN IF c[1] >= 0 THEN Identity ELSE HalfTurnAboutX
        ELSE RotationAboutCross(v, c)

(***************************************************************************)
(* AxisAngleConverter (spec 4.3): axis_angle_from_rotation_matrix.         *)
(***************************************************************************)
\* v / |v| for a vector whose length is rational
Normalized(v) == Vec(v[1], v[2], v[3], ISqrt(v[1] * v[1] + v[2] * v[2] + v[3] * v[3]))

\* column j of R + I
ColumnOfRPlusI(R, j) ==
    Vec(R.a[1][j] + (IF j = 1 THEN R.d ELSE 0), R.a[2][j] + (IF j = 2 THEN R.d ELSE 0),
        R.a[3][j] + (IF j = 3 THEN R.d ELSE 0), R.d)

\* the fallback when the skew-symmetric part vanishes (angle 0 or pi): R + I is
\* 2 k k^T (angle pi) or 2 I (angle 0); its first non-zero column, normalized, is an
\* eigenvector of R with eigenvalue 1
AxisFromSymmetricPart(R) ==
    LET j == CHOOSE i \in 1..3 :
                 /\ ColumnOfRPlusI(R, i) # ZeroVec
                 /\ \A h \in 1..(i - 1) : ColumnOfRPlusI(R, h) = ZeroVec
    IN  Normalized(ColumnOfRPlusI(R, j))

\* the cosine (trace(R) - 1) / 2 clamped to [-1, 1]
ClampedCos(R) ==
    LET n == R.a[1][1] + R.a[2][2] + R.a[3][3] - R.d
        d == 2 * R.d
    IN  IF n > d THEN Rat(1, 1) ELSE IF n < -d THEN Rat(-1, 1) ELSE Rat(n, d)

\* the angles this representation can hold: those whose sine is rational
HasRationalAngle(R) ==
    LET c == ClampedCos(R) IN IsSquare(c[2] * c[2] - c[1] * c[1])

\* a faulty converter, to be told apart by C7: no fallback where the skew-symmetric
\* part vanishes
axis_angle_skew_only(R) ==
    LET c    == ClampedCos(R)
        ang  == Angle(c[1], ISqrt(c[2] * c[2] - c[1] * c[1]), c[2])
        skew == Vec(R.a[3][2] - R.a[2][3], R.a[1][3] - R.a[3][1], R.a[2][1] - R.a[1][2], R.d)
    IN  IF skew # ZeroVec THEN <<Normalized(skew), ang>> ELSE <<ZeroVec, ang>>

axis_angle_from_rotation_matrix(R) ==
    LET c    == ClampedCos(R)
        ang  == Angle(c[1], ISqrt(c[2] * c[2] - c[1] * c[1]), c[2])
        skew == Vec(R.a[3][2] - R.a[2][3], R.a[1][3] - R.a[3][1], R.a[2][1] - R.a[1][2], R.d)
    IN  IF skew # ZeroVec THEN <<Normalized(skew), ang>>
        ELSE <<AxisFromSymmetricPart(R), ang>>

(***************************************************************************)
(* CoordinateTransformer (spec 4.4).                                       *)
(***************************************************************************)
\* the planarity tolerance, 1.0e-5
eps == Rat(1, 100000)

\* the largest |z| over a non-empty sequence of points
RECURSIVE MaxAbsZ(_)
MaxAbsZ(pts) ==
    IF pts = <<>> THEN Rat(0, 1)
    ELSE LET z == RatAbs(Rat(Head(pts)[3], Head(pts)[4]))
             m == MaxAbsZ(Tail(pts))
         IN  IF RatLess(m, z) THEN z ELSE m

\* returns <<points_local, fault_is_plane>>: points_local[i] = R (points[i] - origin)
fault_global_to_local(points, R, origin) ==
    LET local == [i \in 1..Len(points) |-> MatVec(R, VecSub(points[i], origin))]
        m     == MaxAbsZ(local)
    IN  <<local, m[1] < m[2] /\ RatLess(m, eps)>>

\* a faulty inverse transform, to be told apart by C1: R is applied where R^T belongs
fault_local_to_global_untransposed(points, R, origin) ==
    [i \in 1..Len(points) |-> VecAdd(MatVec(R, points[i]), origin)]

\* points_global[i] = R^T points[i] + origin
fault_local_to_global(points, R, origin) ==
    [i \in 1..Len(points) |-> VecAdd(MatVec(Transpose(R), points[i]), origin)]

(***************************************************************************)
(* PlaneFitter (spec 4.1): fit_plane_to_points.                            *)
(***************************************************************************)
RECURSIVE SumVec(_)
SumVec(pts) == IF pts = <<>> THEN ZeroVec ELSE VecAdd(Head(pts), SumVec(Tail(pts)))

Centroid(pts) ==
    LET t == SumVec(pts) IN Vec(t[1], t[2], t[3], t[4] * Len(pts))

\* fewer than 3 points, or all points on one line (or coincident)
IsDegenerate(pts) ==
    \/ Len(pts) < 3
    \/ \A i, j, k \in 1..Len(pts) :
           Cross(VecSub(pts[j], pts[i]), VecSub(pts[k], pts[i])) = ZeroVec

\* the variance along the unit direction n (times the point count) of points
\* already centred on their centroid
RECURSIVE SumSqAlong(_, _)
SumSqAlong(centred, n) ==
    IF centred = <<>> THEN Rat(0, 1)
    ELSE LET h == Dot(Head(centred), n)
         IN  RatAdd(RatMul(h, h), SumSqAlong(Tail(centred), n))

\* the directions of least variance among the rational unit vectors; both signs of a
\* normal have the same variance, and which one the decomposition returns is not fixed
LeastVarianceNormals(pts) ==
    LET o       == Centroid(pts)
        centred == [i \in 1..Len(pts) |-> VecSub(pts[i], o)]
        var     == {<<n, SumSqAlong(centred, n)>> : n \in UnitVectors}
    IN  {p[1] : p \in {q \in var : \A r \in var : RatLeq(q[2], r[2])}}

\* the possible outcomes of fit_plane_to_points(points, eps): the error
\* DegenerateInputError, or a plane normal and origin; the tolerance is passed through
fit_plane_to_points(pts, tol) ==
    IF IsDegenerate(pts)
    THEN {[error |-> "DegenerateInputError", plane_normal |-> ZeroVec, plane_origin |-> ZeroVec]}
    ELSE {[error |-> "none", plane_normal |-> n, plane_origin |-> Centroid(pts)] :
             n \in LeastVarianceNormals(pts)}

(***************************************************************************)
(* State.                                                                  *)
(***************************************************************************)
VARIABLES
    fs,     \* the file system: directory -> (file name -> content)
    last,   \* the last tool run: its tool, its input argument, the exception that
            \* ended it, its options and the convert_file calls it started
    math    \* the geometry core applied to one drawn input, step by step

vars == <<fs, last, math>>

(***************************************************************************)
(* File names are sequences of character codes; 46 is '.', 95 is '_'.      *)
(***************************************************************************)
vtk_suffix   == <<46, 118, 116, 107>>   \* ".vtk"
stl_suffix   == <<46, 115, 116, 108>>   \* ".stl"
md_suffix    == <<46, 112, 107, 108>>   \* ".pkl"
jou_suffix   == <<46, 106, 111, 117>>   \* ".jou"
tsurf_suffix == <<46, 116, 115>>        \* ".ts"
\* "master_local_to_cubit.jou"
jou_master   ==
    <<109, 97, 115, 116, 101, 114, 95, 108, 111, 99, 97, 108, 95, 116, 111, 95,
      99, 117, 98, 105, 116>> \o jou_suffix

\* pathlib: the index of the last '.', or 0
RECURSIVE RFindDot(_, _)
RFindDot(name, i) == IF i = 0 \/ name[i] = 46 THEN i ELSE RFindDot(name, i - 1)

\* pathlib PurePath.suffix: from the last '.', unless that is the first or last character
HasSuffix(name) ==
    LET i == RFindDot(name, Len(name)) IN 1 < i /\ i < Len(name)

PathSuffix(name) ==
    IF HasSuffix(name) THEN SubSeq(name, RFindDot(name, Len(name)), Len(name)) ELSE <<>>

\* pathlib PurePath.stem
PathStem(name) ==
    IF HasSuffix(name) THEN SubSeq(name, 1, RFindDot(name, Len(name)) - 1) ELSE name

\* pathlib PurePath.with_suffix: the last suffix is replaced, or the suffix appended
with_suffix(name, suffix) == PathStem(name) \o suffix

EndsWith(name, suffix) ==
    /\ Len(name) >= Len(suffix)
    /\ SubSeq(name, Len(name) - Len(suffix) + 1, Len(name)) = suffix

StartsWith(name, prefix) ==
    Len(name) >= Len(prefix) /\ SubSeq(name, 1, Len(prefix)) = prefix

\* str.replace(old, new), old non-empty: non-overlapping occurrences, left to right
RECURSIVE Replace(_, _, _)
Replace(str, old, new) ==
    IF str = <<>> \/ old = <<>> THEN str
    ELSE IF StartsWith(str, old)
         THEN new \o Replace(SubSeq(str, Len(old) + 1, Len(str)), old, new)
         ELSE <<Head(str)>> \o Replace(Tail(str), old, new)

\* the order of sorted() on paths of one directory: lexicographic on the characters
RECURSIVE LexLess(_, _)
LexLess(a, b) ==
    IF b = <<>> THEN FALSE
    ELSE IF a = <<>> THEN TRUE
    ELSE IF Head(a) # Head(b) THEN Head(a) < Head(b)
    ELSE LexLess(Tail(a), Tail(b))

RECURSIVE Sorted(_)
Sorted(S) ==
    IF S = {} THEN <<>>
    ELSE LET m == CHOOSE x \in S : \A y \in S \ {x} : LexLess(x, y)
         IN  <<m>> \o Sorted(S \ {m})

\* sorted(in_path.glob('*' + suffix))
SortedGlob(fsys, dir, suffix) == Sorted({n \in DOMAIN fsys[dir] : EndsWith(n, suffix)})

Dirs == {"ts", "vtk", "local", "out", "prev"}

\* a path: a directory (name <<>>), a file of a directory, or a path that does not exist
DirPath(d) == [dir |-> d, name |-> <<>>]
FilePath(d, n) == [dir |-> d, name |-> n]
MissingPath == [dir |-> "nowhere", name |-> <<>>]

is_dir(fsys, path) == path.dir \in Dirs /\ path.name = <<>>
is_file(fsys, path) ==
    path.dir \in Dirs /\ path.name # <<>> /\ path.name \in DOMAIN fsys[path.dir]

\* the file written (created or overwritten)
WriteFile(fsys, dir, name, content) ==
    [fsys EXCEPT ![dir] =
        [n \in (DOMAIN fsys[dir]) \cup {name} |-> IF n = name THEN content ELSE fsys[dir][n]]]

\* the output stem chosen from the input stem and the two qualifiers (None and ''
\* are both <<>>)
OutStem(in_stem, in_qualifier, out_qualifier) ==
    IF in_qualifier # <<>> THEN Replace(in_stem, in_qualifier, out_qualifier)
    ELSE IF out_qualifier # <<>> THEN in_stem \o out_qualifier
    ELSE in_stem

\* one convert_file call of a run, as the run made it
Call(in, md, out, jou) == [in |-> in, md |-> md, out |-> out, jou |-> jou]

NoOpts == [output_global |-> FALSE, smoothing |-> FALSE, resolution |-> "none"]

\* one run of a tool: the tool, its input argument, the exception that ended it
\* ("none" if none), the convert_file calls it started, its options
Run(tool, in_path, exc, calls, opts) ==
    [tool |-> tool, in_path |-> in_path, exc |-> exc, calls |-> calls, opts |-> opts]

\* the result of a step of a tool: the file system, the exception raised ("none" if
\* none) and the convert_file calls started
Result(fsys, exc, calls) == [fs |-> fsys, exc |-> exc, calls |-> calls]

\* a loop over files so far (acc) followed by one more convert_file call (r)
Then(acc, r) == Result(r.fs, r.exc, acc.calls \o r.calls)

(***************************************************************************)
(* fmt_fault_global_to_local: VTK -> STL in local coordinates + metadata.  *)
(***************************************************************************)
Mesh(points, cells) == [points |-> points, cells |-> cells]

\* the sign of the first non-zero component of a vector
SignOf(v) ==
    IF v[1] # 0 THEN (IF v[1] > 0 THEN 1 ELSE -1)
    ELSE IF v[2] # 0 THEN (IF v[2] > 0 THEN 1 ELSE -1)
    ELSE IF v[3] > 0 THEN 1 ELSE -1

\* the outcome of fit_plane_to_points under one of the two sign conventions the
\* decomposition may follow
FitOutcome(points, sgn) ==
    CHOOSE o \in fit_plane_to_points(points, eps) :
        o.error # "none" \/ SignOf(o.plane_normal) = sgn

\* a faulty record, to be told apart by C2: the origin under another name
SurfaceInfo_renamed(plane_normal, plane_origin, rotation_axis, rotation_angle, fault_is_plane) ==
    [plane_normal   |-> plane_normal,
     origin         |-> plane_origin,
     rotation_axis  |-> rotation_axis,
     rotation_angle |-> rotation_angle,
     fault_is_plane |-> fault_is_plane]

\* the record pickled as the surface's metadata
SurfaceInfo(plane_normal, plane_origin, rotation_axis, rotation_angle, fault_is_plane) ==
    [plane_normal   |-> plane_normal,
     plane_origin   |-> plane_origin,
     rotation_axis  |-> rotation_axis,
     rotation_angle |-> rotation_angle,
     fault_is_plane |-> fault_is_plane]

G2L_call(in_file, out_root) ==
    <<Call(in_file, FilePath(out_root.dir, with_suffix(out_root.name, md_suffix)),
           FilePath(out_root.dir, with_suffix(out_root.name, stl_suffix)), MissingPath)>>

\* a faulty writer, to be told apart by C3: the mesh is written without its cells
G2L_write_no_cells(fsys, in_file, out_root, cells, fit, aa, loc) ==
    Result(WriteFile(WriteFile(fsys, out_root.dir, with_suffix(out_root.name, md_suffix),
                               SurfaceInfo(fit.plane_normal, fit.plane_origin,
                                           aa[1], aa[2], loc[2])),
                     out_root.dir, with_suffix(out_root.name, stl_suffix),
                     Mesh(loc[1], <<>>)),
           "none", G2L_call(in_file, out_root))

\* convert_file from the metadata on: the record is pickled, then the mesh in local
\* coordinates is written with the cells as they were read
G2L_write(fsys, in_file, out_root, cells, fit, aa, loc) ==
    Result(WriteFile(WriteFile(fsys, out_root.dir, with_suffix(out_root.name, md_suffix),
                               SurfaceInfo(fit.plane_normal, fit.plane_origin,
                                           aa[1], aa[2], loc[2])),
                     out_root.dir, with_suffix(out_root.name, stl_suffix),
                     Mesh(loc[1], cells)),
           "none", G2L_call(in_file, out_root))

\* convert_file from the rotation matrix on
G2L_transform(fsys, in_file, out_root, vtk, fit, rotation_matrix) ==
    G2L_write(fsys, in_file, out_root, vtk.cells, fit,
              axis_angle_from_rotation_matrix(rotation_matrix),
              fault_global_to_local(vtk.points, rotation_matrix, fit.plane_origin))

\* a faulty converter, to be told apart by C5: the metadata file is written before
\* the exception of the fit is raised
G2L_fitted_writes_first(fsys, in_file, out_root, vtk, fit) ==
    IF fit.error # "none"
    THEN Result(WriteFile(fsys, out_root.dir, with_suffix(out_root.name, md_suffix),
                          SurfaceInfo(fit.plane_normal, fit.plane_origin,
                                      ZeroVec, Angle(1, 0, 1), FALSE)),
                fit.error, G2L_call(in_file, out_root))
    ELSE G2L_transform(fsys, in_file, out_root, vtk, fit,
                       get_fault_rotation_matrix(fit.plane_normal, cutoff_vecmag))

\* convert_file from the fitted plane on; an exception of the fit ends the call
G2L_fitted(fsys, in_file, out_root, vtk, fit) ==
    IF fit.error # "none" THEN Result(fsys, fit.error, G2L_call(in_file, out_root))
    ELSE G2L_transform(fsys, in_file, out_root, vtk, fit,
                       get_fault_rotation_matrix(fit.plane_normal, cutoff_vecmag))

G2L_convert_file(fsys, in_file, out_root, sgn) ==
    G2L_fitted(fsys, in_file, out_root, fsys[in_file.dir][in_file.name],
               FitOutcome(fsys[in_file.dir][in_file.name].points, sgn))

\* the loop of convert_dir over the sorted files; an exception ends it
RECURSIVE G2L_convert_each(_, _, _, _, _, _, _)
G2L_convert_each(acc, in_dir, files, out_dir, in_qualifier, out_qualifier, sgn) ==
    IF files = <<>> \/ acc.exc # "none" THEN acc
    ELSE G2L_convert_each(
             Then(acc, G2L_convert_file(acc.fs, FilePath(in_dir, Head(files)),
                           FilePath(out_dir, OutStem(PathStem(Head(files)),
                                                     in_qualifier, out_qualifier)),
                           sgn)),
             in_dir, Tail(files), out_dir, in_qualifier, out_qualifier, sgn)

G2L_convert_dir(fsys, in_path, out_dir, in_qualifier, out_qualifier, sgn) ==
    G2L_convert_each(Result(fsys, "none", <<>>), in_path.dir,
                     SortedGlob(fsys, in_path.dir, vtk_suffix), out_dir,
                     in_qualifier, out_qualifier, sgn)

G2L_main(fsys, in_path, out_dir, in_qualifier, out_qualifier, sgn) ==
    IF is_file(fsys, in_path)
    THEN IF PathSuffix(in_path.name) # vtk_suffix
         THEN Result(fsys, "ValueError: Only VTK (*.vtk) files are allowed as input.", <<>>)
         ELSE G2L_convert_file(fsys, in_path,
                  FilePath(out_dir, OutStem(PathStem(in_path.name), in_qualifier, out_qualifier)),
                  sgn)
    ELSE IF is_dir(fsys, in_path)
    THEN G2L_convert_dir(fsys, in_path, out_dir, in_qualifier, out_qualifier, sgn)
    ELSE Result(fsys, "ValueError: Unable to find %s.", <<>>)

(***************************************************************************)
(* fmt_fault_local_to_global: local STL + metadata -> global STL.          *)
(***************************************************************************)
\* the keys convert_file looks up in the unpickled record
L2G_keys == {"plane_normal", "plane_origin"}

L2G_convert_file(fsys, in_stl, in_md, out_file) ==
    LET stl  == fsys[in_stl.dir][in_stl.name]
        pl   == fsys[in_md.dir][in_md.name]
        rotation_matrix == get_fault_rotation_matrix(pl["plane_normal"], cutoff_vecmag)
        points_global   == fault_local_to_global(stl.points, rotation_matrix, pl["plane_origin"])
        call == <<Call(in_stl, in_md, out_file, MissingPath)>>
    IN  IF ~is_file(fsys, in_md) THEN Result(fsys, "FileNotFoundError", call)
        ELSE IF ~(L2G_keys \subseteq DOMAIN pl) THEN Result(fsys, "KeyError", call)
        ELSE Result(WriteFile(fsys, out_file.dir, out_file.name, Mesh(points_global, stl.cells)),
                    "none", call)

\* the loop of convert_dir: the file_num-th STL file with the file_num-th metadata file
RECURSIVE L2G_convert_each(_, _, _, _, _, _, _)
L2G_convert_each(acc, in_dir, in_stl, in_md, out_dir, in_qualifier, out_qualifier) ==
    IF in_stl = <<>> \/ acc.exc # "none" THEN acc
    ELSE L2G_convert_each(
             Then(acc, L2G_convert_file(acc.fs, FilePath(in_dir, Head(in_stl)),
                           FilePath(in_dir, Head(in_md)),
                           FilePath(out_dir,
                                    with_suffix(OutStem(PathStem(Head(in_stl)),
                                                        in_qualifier, out_qualifier),
                                                stl_suffix)))),
             in_dir, Tail(in_stl), Tail(in_md), out_dir, in_qualifier, out_qualifier)

\* the two sorted listings are compared by length before the loop starts
L2G_checked(fsys, in_dir, in_stl, in_md, out_dir, in_qualifier, out_qualifier) ==
    IF Len(in_stl) # Len(in_md)
    THEN Result(fsys, "ValueError: Number of input STL files does not match number of input metadata files.", <<>>)
    ELSE L2G_convert_each(Result(fsys, "none", <<>>), in_dir, in_stl, in_md, out_dir,
                          in_qualifier, out_qualifier)

L2G_convert_dir(fsys, in_path, out_dir, in_qualifier, out_qualifier) ==
    L2G_checked(fsys, in_path.dir, SortedGlob(fsys, in_path.dir, stl_suffix),
                SortedGlob(fsys, in_path.dir, md_suffix), out_dir,
                in_qualifier, out_qualifier)

L2G_main(fsys, inRoot, outDir, in_qualifier, out_qualifier) ==
    LET testPath == FilePath(inRoot.dir, with_suffix(inRoot.name, stl_suffix))
        in_md    == FilePath(inRoot.dir, with_suffix(inRoot.name, md_suffix))
        out_stem == OutStem(PathStem(testPath.name), in_qualifier, out_qualifier)
        out_file == FilePath(outDir, with_suffix(out_stem, stl_suffix))
    IN  IF inRoot.name # <<>> /\ is_file(fsys, testPath)
        THEN IF PathSuffix(testPath.name) # stl_suffix
             THEN Result(fsys, "ValueError: Only STL (*.stl) files are allowed as input.", <<>>)
             ELSE L2G_convert_file(fsys, testPath, in_md, out_file)
        ELSE IF is_dir(fsys, inRoot)
        THEN L2G_convert_dir(fsys, inRoot, outDir, in_qualifier, out_qualifier)
        \* msg = 'Unable to find %s.' % in_path, and the module defines no in_path
        ELSE Result(fsys, "NameError: name 'in_path' is not defined", <<>>)

(***************************************************************************)
(* fmt_ts_fault_local_to_cubit: local STL (+ metadata) -> Cubit journal.   *)
(***************************************************************************)
NoNums == <<>>

\* one command of a journal: its words, the path it names, its numbers as written
Command(cmd, path, nums) == [cmd |-> cmd, path |-> path, nums |-> nums]

Journal(lines) == [lines |-> lines]

RECURSIVE Pow10(_)
Pow10(k) == IF k = 0 THEN 1 ELSE 10 * Pow10(k - 1)

\* the decimal exponent e of n/d > 0: 10^e <= n/d < 10^(e+1)
RECURSIVE Exponent10(_, _)
Exponent10(n, d) ==
    IF n >= 10 * d THEN 1 + Exponent10(n, 10 * d)
    ELSE IF n < d THEN Exponent10(10 * n, d) - 1
    ELSE 0

\* n/d >= 0 rounded to the nearest integer, ties to even
RoundHalfEven(n, d) ==
    LET q == n \div d
        r == n - q * d
    IN  IF 2 * r > d \/ (2 * r = d /\ q % 2 = 1) THEN q + 1 ELSE q

\* the number that '%g' writes: x rounded to 6 significant digits
FormatG(x) ==
    IF x[1] = 0 THEN Rat(0, 1)
    ELSE LET n == Abs(x[1])
             e == Exponent10(n, x[2])
             k == 5 - e
             g == IF k >= 0 THEN GCD(Pow10(k), x[2]) ELSE 1
             m == IF k >= 0 THEN RoundHalfEven(n * (Pow10(k) \div g), x[2] \div g)
                  ELSE RoundHalfEven(n, x[2] * Pow10(-k))
             s == IF x[1] < 0 THEN -1 ELSE 1
         IN  IF k >= 0 THEN Rat(s * m, Pow10(k)) ELSE Rat(s * m * Pow10(-k), 1)

\* numpy.degrees of an angle in [0, pi]: exact for 0, 90 and 180 degrees, to seven
\* significant digits for the other angles of the model
Degrees(ang) ==
    CASE ang = Angle(1, 0, 1)  -> Rat(0, 1)
      [] ang = Angle(0, 1, 1)  -> Rat(90, 1)
      [] ang = Angle(-1, 0, 1) -> Rat(180, 1)
      [] ang = Angle(4, 3, 5)  -> Rat(3686990, 100000)
      [] ang = Angle(3, 4, 5)  -> Rat(5313010, 100000)
      [] ang = Angle(-3, 4, 5) -> Rat(1268699, 10000)
      [] ang = Angle(-4, 3, 5) -> Rat(1431301, 10000)

Coord(v, i) == Rat(v[i], v[4])

\* the keys convert_file looks up when output_global is set
Cubit_keys == {"rotation_angle", "rotation_axis", "plane_origin"}

\* the commands written before the first point of failure, then the rest
Cubit_head(in_stl) ==
    <<Command("reset", MissingPath, NoNums),
      Command("import stl", in_stl, NoNums),
      Command("surface all scheme triadvance", MissingPath, NoNums)>>

Cubit_mesh(smoothing) ==
    <<Command("surface all size", MissingPath, NoNums),
      Command("mesh surface all", MissingPath, NoNums)>>
    \o (IF smoothing
        THEN <<Command("surface all smooth scheme condition number beta cpu 2", MissingPath, NoNums),
               Command("smooth surface all", MissingPath, NoNums)>>
        ELSE <<>>)

Cubit_global(mv) ==
    LET ang_radians  == mv["rotation_angle"]
        axis         == mv["rotation_axis"]
        ang_degrees  == Rat(-Degrees(ang_radians)[1], Degrees(ang_radians)[2])
        plane_origin == mv["plane_origin"]
    IN  <<Command("rotate surface all about angle", MissingPath,
                  <<FormatG(Coord(axis, 1)), FormatG(Coord(axis, 2)), FormatG(Coord(axis, 3)),
                    FormatG(ang_degrees)>>),
          Command("volume all move x y z", MissingPath,
                  <<FormatG(Coord(plane_origin, 1)), FormatG(Coord(plane_origin, 2)),
                    FormatG(Coord(plane_origin, 3))>>)>>

Cubit_export(out_stl) == <<Command("export stl tri all mesh overwrite", out_stl, NoNums)>>

\* resolution is "text" when -r is given (a string) and "float" when it is left to
\* its default 2000.0, which 'surface all size ' + resolution cannot concatenate
Cubit_convert_file(fsys, in_stl, in_md, out_stl, out_journal, resolution, smoothing, output_global) ==
    LET call  == <<Call(in_stl, in_md, out_stl, out_journal)>>
        put(lines) == WriteFile(fsys, out_journal.dir, out_journal.name, Journal(lines))
        mv    == fsys[in_md.dir][in_md.name]
        upto  == Cubit_head(in_stl) \o Cubit_mesh(smoothing)
    IN  IF resolution # "text" THEN Result(put(Cubit_head(in_stl)), "TypeError", call)
        ELSE IF ~output_global
        THEN Result(put(upto \o Cubit_export(out_stl)), "none", call)
        ELSE IF ~is_file(fsys, in_md) THEN Result(put(upto), "FileNotFoundError", call)
        ELSE IF ~(Cubit_keys \subseteq DOMAIN mv) THEN Result(put(upto), "KeyError", call)
        ELSE Result(put(upto \o Cubit_global(mv) \o Cubit_export(out_stl)), "none", call)

\* the master journal with one more playback line
Cubit_playback(fsys, out_dir, out_journal) ==
    WriteFile(fsys, out_dir, jou_master,
              Journal(fsys[out_dir][jou_master].lines
                      \o <<Command("playback", out_journal, NoNums)>>))

\* one pass of the loop of convert_dir, the output stem known
Cubit_convert_one(fsys, in_stl, in_md, out_dir, out_stem, resolution, smoothing, output_global) ==
    Cubit_convert_file(
        Cubit_playback(fsys, out_dir, FilePath(out_dir, with_suffix(out_stem, jou_suffix))),
        in_stl, in_md,
        FilePath(out_dir, with_suffix(out_stem, stl_suffix)),
        FilePath(out_dir, with_suffix(out_stem, jou_suffix)),
        resolution, smoothing, output_global)

\* the loop of convert_dir: the master journal gets a playback line, then the
\* file_num-th STL file is converted with the file_num-th metadata file
RECURSIVE Cubit_convert_each(_, _, _, _, _, _, _, _, _, _)
Cubit_convert_each(acc, in_dir, in_stl, in_md, out_dir, in_qualifier, out_qualifier, resolution, smoothing, output_global) ==
    IF in_stl = <<>> \/ acc.exc # "none" THEN acc
    ELSE Cubit_convert_each(
             Then(acc, Cubit_convert_one(acc.fs, FilePath(in_dir, Head(in_stl)),
                           FilePath(in_dir, Head(in_md)), out_dir,
                           OutStem(PathStem(Head(in_stl)), in_qualifier, out_qualifier),
                           resolution, smoothing, output_global)),
             in_dir, Tail(in_stl), Tail(in_md), out_dir, in_qualifier, out_qualifier,
             resolution, smoothing, output_global)

\* a faulty convert_dir, to be told apart by C10: the master journal is opened
\* before the two listings are compared
Cubit_checked_late(fsys, in_dir, in_stl, in_md, out_path, in_qualifier, out_qualifier, resolution, smoothing, output_global) ==
    IF Len(in_stl) # Len(in_md)
    THEN Result(WriteFile(fsys, out_path, jou_master, Journal(<<>>)),
                "ValueError: Number of input STL files does not match number of input metadata files.", <<>>)
    ELSE Cubit_convert_each(
             Result(WriteFile(fsys, out_path, jou_master, Journal(<<>>)), "none", <<>>),
             in_dir, in_stl, in_md, out_path, in_qualifier, out_qualifier,
             resolution, smoothing, output_global)

\* the two sorted listings are compared by length before the master journal is opened
Cubit_checked(fsys, in_dir, in_stl, in_md, out_path, in_qualifier, out_qualifier, resolution, smoothing, output_global) ==
    IF Len(in_stl) # Len(in_md)
    THEN Result(fsys, "ValueError: Number of input STL files does not match number of input metadata files.", <<>>)
    ELSE Cubit_convert_each(
             Result(WriteFile(fsys, out_path, jou_master, Journal(<<>>)), "none", <<>>),
             in_dir, in_stl, in_md, out_path, in_qualifier, out_qualifier,
             resolution, smoothing, output_global)

Cubit_convert_dir(fsys, in_path, out_path, in_qualifier, out_qualifier, resolution, smoothing, output_global) ==
    Cubit_checked(fsys, in_path.dir, SortedGlob(fsys, in_path.dir, stl_suffix),
                  SortedGlob(fsys, in_path.dir, md_suffix), out_path,
                  in_qualifier, out_qualifier, resolution, smoothing, output_global)

Cubit_main(fsys, in_root, out_dir, in_qualifier, out_qualifier, resolution, smoothing, output_global) ==
    LET test_path == FilePath(in_root.dir, with_suffix(in_root.name, stl_suffix))
        in_md     == FilePath(in_root.dir, with_suffix(in_root.name, md_suffix))
        out_stem  == OutStem(PathStem(test_path.name), in_qualifier, out_qualifier)
        out_stl   == FilePath(out_dir, with_suffix(out_stem, stl_suffix))
        out_jou   == FilePath(out_dir, with_suffix(out_stem, jou_suffix))
    IN  IF in_root.name # <<>> /\ is_file(fsys, test_path)
        THEN IF PathSuffix(test_path.name) # stl_suffix
             THEN Result(fsys, "ValueError: Only STL (*.stl) files are allowed as input.", <<>>)
             ELSE Cubit_convert_file(fsys, test_path, in_md, out_stl, out_jou,
                                     resolution, smoothing, output_global)
        ELSE IF is_dir(fsys, in_root)
        THEN Cubit_convert_dir(fsys, in_root, out_dir, in_qualifier, out_qualifier,
                               resolution, smoothing, output_global)
        \* msg = 'Unable to find %s.' % in_path, and the module defines no in_path
        ELSE Result(fsys, "NameError: name 'in_path' is not defined", <<>>)

(***************************************************************************)
(* fmt_tsurf2vtk: TSurf -> VTK.                                            *)
(***************************************************************************)
\* the mesh of the TSurf file is written as it was read
T2V_convert_file(fsys, in_file, out_file) ==
    Result(WriteFile(fsys, out_file.dir, out_file.name, fsys[in_file.dir][in_file.name]),
           "none", <<Call(in_file, MissingPath, out_file, MissingPath)>>)

RECURSIVE T2V_convert_each(_, _, _, _)
T2V_convert_each(acc, in_dir, files, out_dir) ==
    IF files = <<>> \/ acc.exc # "none" THEN acc
    ELSE T2V_convert_each(
             Then(acc, T2V_convert_file(acc.fs, FilePath(in_dir, Head(files)),
                           FilePath(out_dir, with_suffix(PathStem(Head(files)), vtk_suffix)))),
             in_dir, Tail(files), out_dir)

T2V_convert_dir(fsys, in_path, out_path) ==
    T2V_convert_each(Result(fsys, "none", <<>>), in_path.dir, SortedGlob(fsys, in_path.dir, tsurf_suffix),
                     out_path.dir)

T2V_main(fsys, in_path, out_path) ==
    IF is_file(fsys, in_path)
    THEN IF PathSuffix(in_path.name) # tsurf_suffix
         THEN Result(fsys, "ValueError: Only tsurf (*.ts) files are allowed as input.", <<>>)
         ELSE T2V_convert_file(fsys, in_path,
                  FilePath(out_path.dir, with_suffix(out_path.name, vtk_suffix)))
    ELSE IF is_dir(fsys, in_path)
    THEN T2V_convert_dir(fsys, in_path, out_path)
    ELSE Result(fsys, "ValueError: Unable to find %s.", <<>>)

(***************************************************************************)
(* The tools run on a file system.  The directory "ts" holds the TSurf     *)
(* files to start from; fmt_tsurf2vtk writes to "vtk"; global->local reads *)
(* "vtk" and writes "local"; local->global and local->cubit are each given *)
(* a new, empty output directory, "out", and read "local" or "prev", the   *)
(* output directory of the run just before.  Older output directories are  *)
(* not kept in the model.  Each action is one run of a tool, from its      *)
(* argument parsing to its normal end or the exception that ends it.       *)
(***************************************************************************)
name_a == <<97>>    \* "a"
name_b == <<98>>    \* "b"
\* names with dots in the stem: with_suffix drops one dotted part at each tool, so
\* "a.q.x.y.ts" arrives in the local directory as "a.q.stl" and "a.x.y.ts" as "a.stl"
name_aqxy == <<97, 46, 113, 46, 120, 46, 121>>    \* "a.q.x.y"
name_axy  == <<97, 46, 120, 46, 121>>             \* "a.x.y"
qual_local  == <<95, 108, 111, 99, 97, 108>>         \* "_local"
qual_global == <<95, 103, 108, 111, 98, 97, 108>>    \* "_global"

Triangles == <<<<1, 2, 3>>, <<2, 4, 3>>>>

\* a flat horizontal square: normal (0, 0, +-1)
FlatHorizontal ==
    Mesh(<<Vec(0, 0, 0, 1), Vec(4, 0, 0, 1), Vec(0, 4, 0, 1), Vec(4, 4, 0, 1)>>, Triangles)

\* a flat rectangle dipping 37 degrees: normal +-(0, 3, 4)/5, |normal x Z| = 0.6
FlatDipping ==
    Mesh(<<Vec(0, 0, 0, 1), Vec(2, 0, 0, 1), Vec(0, 4, -3, 1), Vec(2, 4, -3, 1)>>, Triangles)

\* a flat vertical rectangle far from the origin: normal +-(3, 4, 0)/5
FlatVertical ==
    Mesh(<<Vec(1234567, 5, 0, 1), Vec(1234567, 5, 2, 1), Vec(1234571, 2, 0, 1),
           Vec(1234571, 2, 2, 1)>>, Triangles)

\* a saddle: least variance along Z, corners 1 above and below the fitted plane
Saddle ==
    Mesh(<<Vec(2, 2, 1, 1), Vec(2, -2, -1, 1), Vec(-2, 2, -1, 1), Vec(-2, -2, 1, 1)>>, Triangles)

\* three points on a line
Collinear == Mesh(<<Vec(0, 0, 0, 1), Vec(1, 1, 1, 1), Vec(2, 2, 2, 1)>>, <<<<1, 2, 3>>>>)

\* two points
TwoPoints == Mesh(<<Vec(0, 0, 0, 1), Vec(1, 0, 0, 1)>>, <<>>)

NoFiles == <<>>

TsFile(stem, mesh) == [n \in {stem \o tsurf_suffix} |-> mesh]

TsFiles(m1, m2) ==
    [n \in {name_a \o tsurf_suffix, name_b \o tsurf_suffix} |->
        IF n = name_a \o tsurf_suffix THEN m1 ELSE m2]

\* two TSurf files under given stems
TsNamed(stem1, m1, stem2, m2) ==
    [n \in {stem1 \o tsurf_suffix, stem2 \o tsurf_suffix} |->
        IF n = stem1 \o tsurf_suffix THEN m1 ELSE m2]

\* the input directories the model starts from
TsDirs ==
    {TsFiles(FlatHorizontal, TwoPoints), TsFiles(FlatVertical, Saddle),
     TsFile(name_a, FlatDipping), TsFile(name_a, Collinear),
     TsNamed(name_aqxy, FlatHorizontal, name_axy, FlatDipping)}

NoMath ==
    [stage |-> "none", inp |-> [kind |-> "none", v |-> ZeroVec, ang |-> Angle(1, 0, 1)],
     R |-> Identity, aa |-> <<ZeroVec, Angle(1, 0, 1)>>, aadone |-> FALSE,
     pts |-> <<>>, origin |-> ZeroVec, local |-> <<>>, planar |-> FALSE, global |-> <<>>]

NoRun == Run("none", MissingPath, "none", <<>>, NoOpts)

Init ==
    /\ \E ts \in TsDirs : fs = [d \in Dirs |-> IF d = "ts" THEN ts ELSE NoFiles]
    /\ last = NoRun
    /\ math = NoMath

FilesOf(dir) == {FilePath(dir, n) : n \in DOMAIN fs[dir]}

\* the roots of the STL files of a directory: the paths without their suffix
RootsOf(dir) == {FilePath(dir, PathStem(n)) : n \in {f \in DOMAIN fs[dir] : EndsWith(f, stl_suffix)}}

\* the file system a local->global or local->cubit run starts in: the last output
\* directory is now "prev", and "out" is new
WithNewOut(fsys) == [fsys EXCEPT !["prev"] = fsys["out"], !["out"] = NoFiles]

\* the options local->cubit is run with: <<resolution, smoothing, output_global>>
CubitOptions ==
    {<<"text", FALSE, FALSE>>, <<"text", TRUE, FALSE>>, <<"text", FALSE, TRUE>>,
     <<"text", TRUE, TRUE>>, <<"float", TRUE, TRUE>>}

Tsurf2Vtk ==
    \E in_path \in {DirPath("ts"), MissingPath} \cup FilesOf("ts") \cup FilesOf("vtk") :
        \E r \in {T2V_main(fs, in_path,
                           IF in_path.name = <<>> THEN DirPath("vtk")
                           ELSE FilePath("vtk", PathStem(in_path.name)))} :
            /\ fs' = [r.fs EXCEPT !["out"] = NoFiles]
            /\ last' = Run("tsurf2vtk", in_path, r.exc, r.calls, NoOpts)
            /\ UNCHANGED math

GlobalToLocal ==
    \E in_path \in {DirPath("vtk"), MissingPath} \cup FilesOf("vtk") \cup FilesOf("ts"),
       sgn \in {1, -1} :
        \E r \in {G2L_main(fs, in_path, "local", <<>>, qual_local, sgn)} :
            /\ fs' = [r.fs EXCEPT !["out"] = NoFiles]
            /\ last' = Run("global_to_local", in_path, r.exc, r.calls, NoOpts)
            /\ UNCHANGED math

LocalToGlobal ==
    \E inRoot \in {DirPath("local"), DirPath("prev"), MissingPath} \cup RootsOf("local"),
       in_qualifier \in {<<>>, qual_local} :
        \E r \in {L2G_main(WithNewOut(fs), inRoot, "out", in_qualifier, qual_global)} :
            /\ fs' = [r.fs EXCEPT !["prev"] = NoFiles]
            /\ last' = Run("local_to_global", inRoot, r.exc, r.calls, NoOpts)
            /\ UNCHANGED math

LocalToCubit ==
    \E in_root \in {DirPath("local"), DirPath("prev"), MissingPath} \cup RootsOf("local"),
       o \in CubitOptions :
        \E r \in {Cubit_main(WithNewOut(fs), in_root, "out", <<>>, qual_global,
                             o[1], o[2], o[3])} :
            /\ fs' = [r.fs EXCEPT !["prev"] = NoFiles]
            /\ last' = Run("local_to_cubit", in_root, r.exc, r.calls,
                           [output_global |-> o[3], smoothing |-> o[2], resolution |-> o[1]])
            /\ UNCHANGED math

Next == Tsurf2Vtk \/ GlobalToLocal \/ LocalToGlobal \/ LocalToCubit

Spec == Init /\ [][Next]_vars

(***************************************************************************)
(* The geometry core on drawn inputs: a unit normal goes through           *)
(* get_fault_rotation_matrix, or an (axis, angle) pair through Rodrigues'  *)
(* formula to give an arbitrary rotation matrix; the matrix then goes      *)
(* through axis_angle_from_rotation_matrix and through the forward and     *)
(* inverse transforms of a point set.                                      *)
(***************************************************************************)
\* unit normals beyond MaxDen whose cross product with Z is above the cutoff
SteepNormals == {Vec(8, 4, 1, 9), Vec(-4, 8, -1, 9), Vec(36, 48, 11, 61)}

MathNormals == UnitVectors \cup SteepNormals

MathAngles ==
    {Angle(1, 0, 1), Angle(0, 1, 1), Angle(-1, 0, 1), Angle(3, 4, 5), Angle(4, 3, 5),
     Angle(-3, 4, 5), Angle(-4, 3, 5)}

MathInputs ==
    {[kind |-> "normal", v |-> n, ang |-> Angle(1, 0, 1)] : n \in MathNormals}
    \cup {[kind |-> "axisangle", v |-> k, ang |-> a] : k \in UnitVectors, a \in MathAngles}

MathPointSets ==
    {<<>>,
     <<Vec(7, -2, 3, 1)>>,
     <<Vec(0, 0, 0, 1), Vec(4, 0, 0, 1), Vec(0, 4, 0, 1), Vec(4, 4, 1, 2)>>,
     <<Vec(1000, 2, 0, 1), Vec(1000, 2, 0, 1), Vec(-5, 1, 3, 4)>>}

MathOrigins == {ZeroVec, Vec(1, 2, 3, 1), Vec(1001, -1, 5, 2)}

NoAxisAngle == <<ZeroVec, Angle(1, 0, 1)>>

MathInit ==
    /\ fs = [d \in Dirs |-> NoFiles]
    /\ last = NoRun
    /\ \E inp \in MathInputs :
        math = [stage |-> "input", inp |-> inp, R |-> Identity,
                aa |-> NoAxisAngle, aadone |-> FALSE,
                pts |-> <<>>, origin |-> ZeroVec, local |-> <<>>, planar |-> FALSE,
                global |-> <<>>]

MBuildRotation ==
    /\ UNCHANGED <<fs, last>>
    /\ math.stage = "input"
    /\ math.inp.kind = "normal"
    /\ math' = [math EXCEPT !.stage = "rotation",
                            !.R = get_fault_rotation_matrix(math.inp.v, cutoff_vecmag)]

MRodrigues ==
    /\ UNCHANGED <<fs, last>>
    /\ math.stage = "input"
    /\ math.inp.kind = "axisangle"
    /\ math' = [math EXCEPT !.stage = "rotation", !.R = Rodrigues(math.inp.v, math.inp.ang)]

MAxisAngle ==
    /\ UNCHANGED <<fs, last>>
    /\ math.stage = "rotation"
    /\ ~math.aadone
    /\ HasRationalAngle(math.R)
    /\ math' = [math EXCEPT !.aadone = TRUE, !.aa = axis_angle_from_rotation_matrix(math.R)]

MToLocal ==
    /\ UNCHANGED <<fs, last>>
    /\ math.stage = "rotation"
    /\ \E pts \in MathPointSets, origin \in MathOrigins :
        \E r \in {fault_global_to_local(pts, math.R, origin)} :
            math' = [math EXCEPT !.stage = "local", !.pts = pts, !.origin = origin,
                                 !.local = r[1], !.planar = r[2]]

MToGlobal ==
    /\ UNCHANGED <<fs, last>>
    /\ math.stage = "local"
    /\ math' = [math EXCEPT !.stage = "global",
                            !.global = fault_local_to_global(math.local, math.R, math.origin)]

MathNext == MBuildRotation \/ MRodrigues \/ MAxisAngle \/ MToLocal \/ MToGlobal

SpecMath == MathInit /\ [][MathNext]_vars

(***************************************************************************)
(* The claims.                                                             *)
(***************************************************************************)
\* the convert_file calls of a run that returned: all of them, or all but the last
\* when an exception ended the run inside a call
Completed(run) ==
    IF run.exc = "none" \/ run.calls = <<>> THEN run.calls
    ELSE SubSeq(run.calls, 1, Len(run.calls) - 1)

ContentOf(path) == fs[path.dir][path.name]

CountMismatch == "ValueError: Number of input STL files does not match number of input metadata files."

\* C1: for every rotation matrix R and origin, the inverse transform of the forward
\* transform of a point set is the point set: as many points, in the same order,
\* each equal to the point it came from.
C1_RoundTrip ==
    math.stage = "global" =>
        /\ Len(math.global) = Len(math.pts)
        /\ \A i \in 1..Len(math.pts) : math.global[i] = math.pts[i]

\* C1 happens: a set of four points has gone through a rotation that is not the
\* identity, about an origin that is not zero, and back
C1_Witness ==
    /\ math.stage = "global"
    /\ math.inp.kind = "axisangle"
    /\ math.R # Identity
    /\ Len(math.pts) = 4
    /\ math.origin = Vec(1001, -1, 5, 2)

\* C2: every metadata file holds a record with exactly the fields plane_normal,
\* plane_origin, rotation_axis, rotation_angle and fault_is_plane; the two readers
\* look up only names among these, so no lookup fails; and a run of a reader leaves
\* every metadata file, and the directories it reads, as they were.
C2_HandOff ==
    [][LET fields == {"plane_normal", "plane_origin", "rotation_axis", "rotation_angle",
                      "fault_is_plane"}
       IN  /\ \A d \in Dirs : \A n \in DOMAIN fs'[d] :
                  EndsWith(n, md_suffix) => DOMAIN fs'[d][n] = fields
           /\ L2G_keys \subseteq fields
           /\ Cubit_keys \subseteq fields
           /\ last'.exc # "KeyError"
           /\ last'.tool \in {"local_to_global", "local_to_cubit"} =>
                  /\ \A d \in {"ts", "vtk", "local"} : fs'[d] = fs[d]
                  /\ \A n \in DOMAIN fs'["out"] : ~EndsWith(n, md_suffix)]_vars

\* C2 happens: local->cubit has read the metadata of a surface to write the
\* output_global block of its journal
C2_Witness ==
    /\ last.tool = "local_to_cubit"
    /\ last.exc = "none"
    /\ last.opts.output_global
    /\ last.calls # <<>>
    /\ \E n \in DOMAIN fs["local"] : EndsWith(n, md_suffix)

\* C3: a mesh written by global->local or by local->global has the cells of the
\* mesh it was read from, unchanged, and as many points, the i-th of which is the
\* transform of the i-th point read.  (A file holds the mesh of the last call that
\* wrote it: two stems of one run can give one output name.)
C3_Connectivity ==
    \A i \in 1..Len(Completed(last)) :
        LET c   == last.calls[i]
            src == ContentOf(c.in)
            out == ContentOf(c.out)
            md  == ContentOf(c.md)
            R   == get_fault_rotation_matrix(md.plane_normal, cutoff_vecmag)
        IN  (\A j \in (i + 1)..Len(Completed(last)) : last.calls[j].out # c.out) =>
            /\ last.tool = "global_to_local" =>
                  /\ out.cells = src.cells
                  /\ Len(out.points) = Len(src.points)
                  /\ \A j \in 1..Len(src.points) :
                         out.points[j] = MatVec(R, VecSub(src.points[j], md.plane_origin))
            /\ last.tool = "local_to_global" =>
                  /\ out.cells = src.cells
                  /\ Len(out.points) = Len(src.points)
                  /\ \A j \in 1..Len(src.points) :
                         out.points[j] = VecAdd(MatVec(Transpose(R), src.points[j]),
                                                md.plane_origin)

\* C3 happens: local->global has converted the two meshes of a directory, one of
\* them not flat
C3_Witness ==
    /\ last.tool = "local_to_global"
    /\ last.exc = "none"
    /\ Len(last.calls) = 2
    /\ \E i \in 1..2 : ~ContentOf(last.calls[i].md).fault_is_plane
    /\ \A i \in 1..2 : ContentOf(last.calls[i].out).cells # <<>>

\* C4: for every unit normal n, the rotation R that get_fault_rotation_matrix builds
\* with the cutoff 0.98 the tools pass takes n to the reference axis: R n = (0, 0, 1).
C4_Alignment ==
    (math.stage # "input" /\ math.inp.kind = "normal") =>
        MatVec(math.R, math.inp.v) = reference_axis

\* C5: the fit of a surface fails with DegenerateInputError exactly when the surface
\* has fewer than 3 points or all its points on one line; the failure ends the run,
\* and neither the metadata nor the mesh of that surface is written.
C5_DegenerateFit ==
    last.tool = "global_to_local" =>
        \A i \in 1..Len(last.calls) :
            LET c   == last.calls[i]
                pts == ContentOf(c.in).points
                degenerate ==
                    \/ Len(pts) < 3
                    \/ \A j, k \in 2..Len(pts) :
                           Cross(VecSub(pts[j], pts[1]), VecSub(pts[k], pts[1])) = ZeroVec
            IN  /\ degenerate <=>
                       (i = Len(last.calls) /\ last.exc = "DegenerateInputError")
                /\ degenerate => ~is_file(fs, c.md) /\ ~is_file(fs, c.out)

\* C5 happens: in a directory of two surfaces the first was converted and the fit of
\* the second, of two points, failed
C5_Witness ==
    /\ last.tool = "global_to_local"
    /\ last.exc = "DegenerateInputError"
    /\ Len(last.calls) = 2
    /\ is_file(fs, last.calls[1].md)

\* C6: fault_is_plane is true exactly when the largest |z| of the points in local
\* coordinates is below eps = 1e-5; a surface whose points lie exactly on the fitted
\* plane is reported planar, and one with a point further than eps from it is not.
C6_Planarity ==
    last.tool = "global_to_local" =>
        \A i \in 1..Len(Completed(last)) :
            LET c   == last.calls[i]
                pts == ContentOf(c.in).points
                md  == ContentOf(c.md)
                m   == MaxAbsZ(ContentOf(c.out).points)
                dist(p) == RatAbs(Dot(VecSub(p, md.plane_origin), md.plane_normal))
            IN  /\ md.fault_is_plane <=> (m[1] < m[2] /\ RatLess(m, eps))
                /\ (\A j \in 1..Len(pts) : dist(pts[j])[1] = 0) => md.fault_is_plane
                /\ (\E j \in 1..Len(pts) : dist(pts[j])[1] >= dist(pts[j])[2])
                       => ~md.fault_is_plane

\* C7: the axis and angle extracted from a rotation matrix give the matrix back by
\* Rodrigues' formula, the identity and the rotations by 180 degrees included; the
\* axis is a unit vector, not zero, and the angle is in [0, pi].
C7_AxisAngle ==
    math.aadone =>
        LET axis == math.aa[1]
            ang  == math.aa[2]
        IN  /\ axis # ZeroVec
            /\ IsUnit(axis)
            /\ ang.s >= 0
            /\ ang.c * ang.c + ang.s * ang.s = ang.d * ang.d
            /\ Rodrigues(axis, ang) = math.R

\* C7 happens: the axis and angle of a rotation by 180 degrees about an axis that is
\* not a coordinate axis have been extracted
C7_Witness ==
    /\ math.aadone
    /\ math.aa[2] = Angle(-1, 0, 1)
    /\ math.inp.kind = "axisangle"
    /\ math.inp.v = Vec(3, 0, 4, 5)

\* C8: with output_global, the journal of each surface holds, after the meshing and
\* smoothing commands and before the export, a rotation about the persisted axis by
\* minus the persisted angle in degrees, then a translation by the persisted
\* plane_origin, so that Cubit applies R^T p + origin.
C8_JournalGlobal ==
    (last.tool = "local_to_cubit" /\ last.opts.output_global) =>
        \A i \in 1..Len(last.calls) :
            LET c      == last.calls[i]
                mv     == ContentOf(c.md)
                axis   == mv.rotation_axis
                origin == mv.plane_origin
                deg    == Degrees(mv.rotation_angle)
                block  ==
                    <<Command("rotate surface all about angle", MissingPath,
                              <<Coord(axis, 1), Coord(axis, 2), Coord(axis, 3),
                                FormatG(Rat(-deg[1], deg[2]))>>),
                      Command("volume all move x y z", MissingPath,
                              <<Coord(origin, 1), Coord(origin, 2), Coord(origin, 3)>>)>>
            IN  /\ is_file(fs, c.jou)
                /\ ContentOf(c.jou).lines =
                       Cubit_head(c.in) \o Cubit_mesh(last.opts.smoothing) \o block
                       \o Cubit_export(c.out)

\* C9: a run of any of the four tools on an input path that does not exist ends
\* with ValueError 'Unable to find <path>' and converts no file.
C9_MissingInput ==
    (last.tool # "none" /\ last.in_path = MissingPath) =>
        /\ last.exc = "ValueError: Unable to find %s."
        /\ last.calls = <<>>

\* C10: in directory mode local->global and local->cubit end with the ValueError
\* of the count check exactly when the directory holds different numbers of .stl
\* and .pkl files, and then no output file has been created and no file converted.
C10_CountCheck ==
    [][(last'.tool \in {"local_to_global", "local_to_cubit"} /\ is_dir(fs, last'.in_path)) =>
           LET before == WithNewOut(fs)
               d      == last'.in_path.dir
               count(suffix) == Cardinality({n \in DOMAIN before[d] : EndsWith(n, suffix)})
               mismatch == count(stl_suffix) # count(md_suffix)
           IN  /\ mismatch <=> last'.exc = CountMismatch
               /\ mismatch => (fs'["out"] = NoFiles /\ last'.calls = <<>>)]_vars

\* C10 happens: local->cubit was run on a directory of global STL files, which has
\* no metadata files, and created nothing
C10_Witness ==
    /\ last.tool = "local_to_cubit"
    /\ last.in_path = DirPath("prev")
    /\ last.exc = CountMismatch
    /\ fs["out"] = NoFiles

\* C11: in directory mode of local->global and of local->cubit (with output_global),
\* whenever the input directory holds for every .stl file exactly one .pkl file of
\* the same stem and no other .pkl file, every STL file is converted with the
\* metadata file of its own stem.
C11_OwnMetadata ==
    (/\ last.tool \in {"local_to_global", "local_to_cubit"}
     /\ last.in_path = DirPath("local")
     /\ last.tool = "local_to_cubit" => last.opts.output_global) =>
        LET stl == {n \in DOMAIN fs["local"] : EndsWith(n, stl_suffix)}
            pkl == {n \in DOMAIN fs["local"] : EndsWith(n, md_suffix)}
            paired ==
                /\ \A n \in stl : (PathStem(n) \o md_suffix) \in pkl
                /\ \A n \in pkl : (PathStem(n) \o stl_suffix) \in stl
        IN  paired =>
                \A i \in 1..Len(last.calls) :
                    PathStem(last.calls[i].in.name) = PathStem(last.calls[i].md.name)

====
